---------------------------- MODULE Spec2Model ----------------------------
(***************************************************************************)
(* Model of Project_1.py: a 9x9 Sudoku (optionally with the two diagonal   *)
(* rules) encoded as linear equalities over 9*9*9 binary variables, handed *)
(* to an external solver, and decoded back into a grid.                    *)
(*                                                                         *)
(* A variable is identified by its index triple <<row, col, value>>, the   *)
(* key path grid_vars[row][col][value] of the source.  A constraint is the *)
(* record [name, e, rhs]: e is the sequence of <<variable, coefficient>>   *)
(* terms of the lpSum, in the order the comprehension produces them, and   *)
(* the constraint asserts  sum(coefficient * variable) = rhs.  The problem *)
(* `prob` is the sequence of constraints in the order of addConstraint.    *)
(*                                                                         *)
(* Solved values are rationals k/Den, stored as the integer k, so that a   *)
(* value strictly between 0 and 1 can be told from both.                   *)
(***************************************************************************)
EXTENDS Integers, Sequences, FiniteSets, TLC

VARIABLES
    input_sudoku,   \* the Board handed to solve_sudoku: a list of lists
    diagonal,       \* the diagonal flag handed to solve_sudoku
    pc,             \* position inside solve_sudoku (or inside a unit check)
    prob,           \* constraints added to the LpProblem so far
    prob_before,    \* constraints of the previous build (rebuild runs only)
    status,         \* prob.status after prob.solve()
    x,              \* solved value of every variable, in units of 1/Den
    solution,       \* the grid extract_solution returned
    out,            \* what has been printed, one entry per print call group
    ret,            \* what the call handed back to its caller
    args            \* the arguments of the unit under check (unit runs only)

vars == <<input_sudoku, diagonal, pc, prob, prob_before, status, x,
          solution, out, ret, args>>

---------------------------------------------------------------------------
(* Bounds of the model *)

\* solved values are multiples of 1/Den
Den == 4
\* pattern grids are shifted by 0..MaxShift
MaxShift == 1
\* Board edits touch columns 0..MaxEditCol of row 0
MaxEditCol == 1
\* unit checks of a single cell use the cells (i, 2i mod 9), i in 0..MaxUnitCell
MaxUnitCell == 1
\* a perturbed cell has at most MaxNonZero values that are not 0
MaxNonZero == 2
\* a group is tried with at most MaxOnes of its cells set, and with all set
MaxOnes == 2

---------------------------------------------------------------------------
(* solve_sudoku's ranges *)

rows == 0 .. 8
cols == 0 .. 8
grids == 0 .. 8
values == 1 .. 9

\* str() of an int as an f-string renders it
Digit(d) == <<"0", "1", "2", "3", "4", "5", "6", "7", "8", "9">>[d + 1]

RECURSIVE Str(_)
Str(n) ==
    IF n < 0 THEN "-" \o Str(-n)
    ELSE IF n < 10 THEN Digit(n)
    ELSE Str(n \div 10) \o Digit(n % 10)

\* LpVariable.dicts("grid_value", (rows, cols, values), cat='Binary'):
\* one variable per index triple, named after it
VarName(row, col, value) ==
    "grid_value_" \o Str(row) \o "_" \o Str(col) \o "_" \o Str(value)

grid_vars == [row \in rows |-> [col \in cols |-> [value \in values |->
                 <<row, col, value>>]]]

\* int(grid/3) and int(grid%3) for grid >= 0
GridRow(grid) == grid \div 3
\* the box column taken with / where % was meant
GridCol_divided(grid) == grid \div 3

GridCol(grid) == grid % 3

---------------------------------------------------------------------------
(* The constraints, one constructor per addConstraint call of the source *)

\* A list comprehension over range(0, 9) or values becomes the sequence
\* [k \in 1 .. 9 |-> ...], k - 1 or k being the loop variable.

cell_constraint(row, col) ==
    [name |-> "constraint_sum_" \o Str(row) \o "_" \o Str(col),
     e    |-> [value \in 1 .. 9 |-> <<grid_vars[row][col][value], 1>>],
     rhs  |-> 1]

\* the row rule written with its indices the wrong way round
row_constraint_transposed(row, value) ==
    [name |-> "constraint_uniq_row_" \o Str(row) \o "_" \o Str(value),
     e    |-> [k \in 1 .. 9 |-> <<grid_vars[k - 1][row][value], value>>],
     rhs  |-> value]

row_constraint(row, value) ==
    [name |-> "constraint_uniq_row_" \o Str(row) \o "_" \o Str(value),
     e    |-> [k \in 1 .. 9 |-> <<grid_vars[row][k - 1][value], value>>],
     rhs  |-> value]

\* the column rule written with its indices the wrong way round
col_constraint_transposed(col, value) ==
    [name |-> "constraint_uniq_col_" \o Str(col) \o "_" \o Str(value),
     e    |-> [k \in 1 .. 9 |-> <<grid_vars[col][k - 1][value], value>>],
     rhs  |-> value]

col_constraint(col, value) ==
    [name |-> "constraint_uniq_col_" \o Str(col) \o "_" \o Str(value),
     e    |-> [k \in 1 .. 9 |-> <<grid_vars[k - 1][col][value], value>>],
     rhs  |-> value]

\* the box rule under a name copied from the row rule
grid_constraint_misnamed(grid, value) ==
    [name |-> "constraint_uniq_row_" \o Str(grid) \o "_" \o Str(value),
     e    |-> [k \in 1 .. 9 |->
                 <<grid_vars[(grid \div 3) * 3 + ((k - 1) % 3)]
                            [(grid % 3) * 3 + ((k - 1) \div 3)][value], value>>],
     rhs  |-> value]

\* for col in range(0,3) for row in range(0,3): col, the outer loop
\* variable, is (k - 1) \div 3 and row is (k - 1) % 3
grid_constraint(grid, value) ==
    [name |-> "constraint_uniq_grid_" \o Str(grid) \o "_" \o Str(value),
     e    |-> [k \in 1 .. 9 |->
                 <<grid_vars[GridRow(grid) * 3 + ((k - 1) % 3)]
                            [GridCol(grid) * 3 + ((k - 1) \div 3)][value], value>>],
     rhs  |-> value]

diag1_constraint(value) ==
    [name |-> "constraint_uniq_diag1_" \o Str(value),
     e    |-> [k \in 1 .. 9 |-> <<grid_vars[k - 1][k - 1][value], value>>],
     rhs  |-> value]

\* the second diagonal rule left as a copy of the first
diag2_constraint_copied(value) ==
    [name |-> "constraint_uniq_diag2_" \o Str(value),
     e    |-> [k \in 1 .. 9 |-> <<grid_vars[k - 1][k - 1][value], value>>],
     rhs  |-> value]

\* len(rows) = 9
diag2_constraint(value) ==
    [name |-> "constraint_uniq_diag2_" \o Str(value),
     e    |-> [k \in 1 .. 9 |->
                 <<grid_vars[k - 1][9 - (k - 1) - 1][value], value>>],
     rhs  |-> value]

\* input_sudoku[row][col] of a list of lists, for row, col >= 0
InRange(board, row, col) ==
    /\ row < Len(board)
    /\ col < Len(board[row + 1])

At(board, row, col) == board[row + 1][col + 1]

\* the prefilled rule without its weights
prefilled_constraint_unweighted(board, row, col) ==
    [name |-> "constraint_prefilled_" \o Str(row) \o "_" \o Str(col),
     e    |-> [value \in 1 .. 9 |-> <<grid_vars[row][col][value], 1>>],
     rhs  |-> At(board, row, col)]

prefilled_constraint(board, row, col) ==
    [name |-> "constraint_prefilled_" \o Str(row) \o "_" \o Str(col),
     e    |-> [value \in 1 .. 9 |-> <<grid_vars[row][col][value], value>>],
     rhs  |-> At(board, row, col)]

\* each pair of nested loops adds 81 constraints, the outer loop variable
\* being (k - 1) \div 9 and the inner one (k - 1) % 9 (+ 1 for a value)
add_default_sudoku_constraints(p) ==
    p \o [k \in 1 .. 81 |-> cell_constraint((k - 1) \div 9, (k - 1) % 9)]
      \o [k \in 1 .. 81 |-> row_constraint((k - 1) \div 9, ((k - 1) % 9) + 1)]
      \o [k \in 1 .. 81 |-> col_constraint((k - 1) \div 9, ((k - 1) % 9) + 1)]
      \o [k \in 1 .. 81 |-> grid_constraint((k - 1) \div 9, ((k - 1) % 9) + 1)]

add_diagonal_sudoku_constraints(p) ==
    p \o [value \in 1 .. 9 |-> diag1_constraint(value)]
      \o [value \in 1 .. 9 |-> diag2_constraint(value)]

\* The scan of add_prefilled_constraints is row-major.  Reading
\* input_sudoku[row][col] outside the list raises IndexError, and the
\* constraints added before that read stay in the problem.
CellOf(k) == <<(k - 1) \div 9, (k - 1) % 9>>

FirstBad(board) ==
    LET bad == {k \in 1 .. 81 : ~InRange(board, CellOf(k)[1], CellOf(k)[2])}
    IN  IF bad = {} THEN 82
        ELSE CHOOSE k \in bad : \A j \in bad : k <= j

RECURSIVE PrefilledUpTo(_, _, _)
PrefilledUpTo(board, k, stop) ==
    IF k >= stop THEN << >>
    ELSE LET row == CellOf(k)[1]
             col == CellOf(k)[2]
         IN  (IF At(board, row, col) # 0
              THEN <<prefilled_constraint(board, row, col)>>
              ELSE << >>) \o PrefilledUpTo(board, k + 1, stop)

\* a scan that takes a missing entry for an empty cell instead of failing
add_prefilled_constraints_lenient(p, board) ==
    [prob   |-> p \o PrefilledUpTo(
                        [r \in 1 .. 9 |-> [c \in 1 .. 9 |->
                            IF InRange(board, r - 1, c - 1)
                            THEN board[r][c] ELSE 0]], 1, 82),
     raised |-> "None"]

add_prefilled_constraints(p, board) ==
    [prob   |-> p \o PrefilledUpTo(board, 1, FirstBad(board)),
     raised |-> IF FirstBad(board) <= 81 THEN "IndexError" ELSE "None"]

---------------------------------------------------------------------------
(* The solver's side: what an assignment makes of a constraint *)

RECURSIVE LhsFrom(_, _, _)
LhsFrom(e, k, a) ==
    IF k > Len(e) THEN 0
    ELSE e[k][2] * a[e[k][1][1]][e[k][1][2]][e[k][1][3]] + LhsFrom(e, k + 1, a)

\* sum(coefficient * value) = rhs, both sides in units of 1/Den
Satisfied(c, a) == LhsFrom(c.e, 1, a) = c.rhs * Den

Feasible(p, a) == \A k \in 1 .. Len(p) : Satisfied(p[k], a)

\* plp.LpStatus, the status table of the solver library
LpStatus ==
    [s \in -3 .. 1 |->
        CASE s = 1  -> "Optimal"
          [] s = 0  -> "Not Solved"
          [] s = -1 -> "Infeasible"
          [] s = -2 -> "Unbounded"
          [] s = -3 -> "Undefined"]

---------------------------------------------------------------------------
(* extract_solution *)

\* a test against the midpoint instead of Python truthiness
Truthy_threshold(v) == 2 * v > Den

\* if plp.value(var): a number is true exactly when it is not zero
Truthy(v) == v # 0

\* a scan that stops at the first true value
RECURSIVE ScanValues_first(_, _, _)
ScanValues_first(cell, value, current) ==
    IF value > 9 THEN current
    ELSE IF cell[value] # 0 THEN value
    ELSE ScanValues_first(cell, value + 1, current)

\* for value in values: if ...: solution[row][col] = value
RECURSIVE ScanValues(_, _, _)
ScanValues(cell, value, current) ==
    IF value > 9 THEN current
    ELSE ScanValues(cell, value + 1,
                    IF Truthy(cell[value]) THEN value ELSE current)

extract_solution(a) ==
    [r \in 1 .. 9 |-> [c \in 1 .. 9 |-> ScanValues(a[r - 1][c - 1], 1, 0)]]

---------------------------------------------------------------------------
(* print_solution and the status line *)

Separator == "\n\n+ ----------- ++ ----------- ++ ----------- ++"

RECURSIVE PrintCols(_, _, _)
PrintCols(sol, row, col) ==
    IF col > 8 THEN ""
    ELSE Str(At(sol, row, col))
         \o (IF (col + 1) % 3 = 0 THEN "  |  " ELSE "   ")
         \o PrintCols(sol, row, col + 1)

RECURSIVE PrintRows(_, _)
PrintRows(sol, row) ==
    IF row > 8 THEN ""
    ELSE "\n\n|  " \o PrintCols(sol, row, 0)
         \o (IF (row + 1) % 3 = 0 THEN Separator ELSE "")
         \o PrintRows(sol, row + 1)

print_solution(sol) == "\nFinal result:\n" \o Separator \o PrintRows(sol, 0)

\* a status line that leaves the status out
StatusLine_blank(s) == "Solution Status = " \o "\n"

StatusLine(s) == "Solution Status = " \o LpStatus[s] \o "\n"

---------------------------------------------------------------------------
(* Inputs: the Boards a caller may pass *)

normal_sudoku ==
    << <<3,0,0,8,0,0,0,0,1>>,
       <<0,0,0,0,0,2,0,0,0>>,
       <<0,4,1,5,0,0,8,3,0>>,
       <<0,2,0,0,0,1,0,0,0>>,
       <<8,5,0,4,0,3,0,1,7>>,
       <<0,0,0,7,0,0,0,2,0>>,
       <<0,8,5,0,0,9,7,4,0>>,
       <<0,0,0,1,0,0,0,0,0>>,
       <<9,0,0,0,0,7,0,0,6>> >>

\* the one grid that completes normal_sudoku
StdSolution ==
    << <<3,6,7,8,9,4,2,5,1>>,
       <<5,9,8,3,1,2,6,7,4>>,
       <<2,4,1,5,7,6,8,3,9>>,
       <<7,2,3,9,8,1,4,6,5>>,
       <<8,5,6,4,2,3,9,1,7>>,
       <<4,1,9,7,6,5,3,2,8>>,
       <<1,8,5,6,3,9,7,4,2>>,
       <<6,7,2,1,4,8,5,9,3>>,
       <<9,3,4,2,5,7,1,8,6>> >>

\* a grid that also has 1..9 on both diagonals
DiagSolution ==
    << <<1,2,3,4,5,6,7,8,9>>,
       <<4,5,6,7,8,9,1,2,3>>,
       <<7,8,9,1,2,3,4,5,6>>,
       <<9,3,5,2,4,1,8,6,7>>,
       <<6,1,7,5,3,8,2,9,4>>,
       <<8,4,2,6,9,7,5,3,1>>,
       <<2,9,8,3,1,4,6,7,5>>,
       <<3,7,1,8,6,5,9,4,2>>,
       <<5,6,4,9,7,2,3,1,8>> >>

\* (a, b) = (3, 1) is a Sudoku grid; (1, 3) is a Latin square whose boxes
\* repeat values; (1, 1) and (3, 3) repeat values in columns
PatternGrid(a, b, s) ==
    [r \in 1 .. 9 |-> [c \in 1 .. 9 |->
        ((a * ((r - 1) % 3) + b * ((r - 1) \div 3) + (c - 1) + s) % 9) + 1]]

SetCell(board, row, col, v) ==
    [board EXCEPT ![row + 1] = [@ EXCEPT ![col + 1] = v]]

EmptyBoard == [r \in 1 .. 9 |-> [c \in 1 .. 9 |-> 0]]

\* the clues of grid g in row 0, every other cell empty
RowClues(g) ==
    [r \in 1 .. 9 |-> [c \in 1 .. 9 |-> IF r = 1 THEN g[r][c] ELSE 0]]

\* the clues of grid g on the cells with row + 2 col a multiple of 4
SpreadClues(g) ==
    [r \in 1 .. 9 |-> [c \in 1 .. 9 |->
        IF ((r - 1) + 2 * (c - 1)) % 4 = 0 THEN g[r][c] ELSE 0]]

SudokuGrids ==
    {StdSolution, DiagSolution} \cup {PatternGrid(3, 1, s) : s \in 0 .. MaxShift}

BaseBoards ==
    {normal_sudoku, EmptyBoard}
    \cup {RowClues(g) : g \in SudokuGrids}
    \cup {SpreadClues(g) : g \in SudokuGrids}

\* one entry of row 0 overwritten, also by a value outside 0..9
EditedBoards ==
    {SetCell(b, 0, col, v) :
        b \in {normal_sudoku, RowClues(PatternGrid(3, 1, 0))},
        col \in 0 .. MaxEditCol, v \in -1 .. 10}

\* Boards that are not 9x9
MisshapenBoards ==
    { << >>,
      SubSeq(normal_sudoku, 1, 8),
      normal_sudoku \o <<normal_sudoku[1]>>,
      [normal_sudoku EXCEPT ![3] = SubSeq(@, 1, 8)],
      [normal_sudoku EXCEPT ![9] = @ \o <<5>>],
      [EmptyBoard EXCEPT ![1] = << >>] }

Boards == BaseBoards \cup EditedBoards \cup MisshapenBoards

---------------------------------------------------------------------------
(* Inputs: the 0/1 assignments the solver may hand back *)

OneHot(g) ==
    [row \in rows |-> [col \in cols |-> [value \in values |->
        IF At(g, row, col) = value THEN Den ELSE 0]]]

\* values up to k sit where g1 has them, the others where g2 has them
Mix(g1, g2, k) ==
    [row \in rows |-> [col \in cols |-> [value \in values |->
        IF At(IF value <= k THEN g1 ELSE g2, row, col) = value
        THEN Den ELSE 0]]]

SwapCells(g, p, q) ==
    SetCell(SetCell(g, p[1], p[2], At(g, q[1], q[2])),
            q[1], q[2], At(g, p[1], p[2]))

\* two rows exchanged: within a band the grid stays a Sudoku grid, across
\* bands its boxes break
SwapRows(g, r1, r2) == [g EXCEPT ![r1 + 1] = g[r2 + 1], ![r2 + 1] = g[r1 + 1]]

\* Sudoku grids, and grids that break one family of rules at a time
CandidateGrids ==
    LET base == {StdSolution, DiagSolution}
                \cup {PatternGrid(a, b, s) : a \in {1, 3}, b \in {1, 3},
                                             s \in 0 .. MaxShift}
    IN  base
        \cup {SwapCells(g, <<0, 0>>, q) :
                g \in SudokuGrids, q \in {<<0, 1>>, <<1, 0>>, <<4, 4>>}}
        \cup {SwapCells(g, <<8, 8>>, q) :
                g \in SudokuGrids, q \in {<<8, 7>>, <<7, 8>>}}
        \cup {SwapRows(g, r, r + d) :
                g \in SudokuGrids, r \in {0, 4}, d \in {1, 3}}

Candidates ==
    {OneHot(g) : g \in CandidateGrids}
    \cup {Mix(PatternGrid(3, 1, 0), g, k) :
            g \in {StdSolution, DiagSolution}, k \in {1, 5}}
    \cup {[row \in rows |-> [col \in cols |-> [value \in values |-> 0]]]}

---------------------------------------------------------------------------
(* solve_sudoku, one action per step *)

Pending == [kind |-> "pending", value |-> "None"]

Init ==
    /\ input_sudoku \in Boards
    /\ diagonal \in BOOLEAN
    /\ pc = "start"
    /\ prob = << >>
    /\ prob_before = << >>
    /\ status = 0
    /\ x = << >>
    /\ solution = << >>
    /\ out = << >>
    /\ ret = Pending
    /\ args = << >>

\* prob = plp.LpProblem(...), the variables and the dummy objective
CreateProblem ==
    /\ pc = "start"
    /\ prob' = << >>
    /\ status' = 0
    /\ pc' = "default"
    /\ UNCHANGED <<input_sudoku, diagonal, prob_before, x, solution, out,
                   ret, args>>

AddDefault ==
    /\ pc = "default"
    /\ prob' = add_default_sudoku_constraints(prob)
    /\ pc' = "diagonal"
    /\ UNCHANGED <<input_sudoku, diagonal, prob_before, status, x, solution,
                   out, ret, args>>

\* if (diagonal): add_diagonal_sudoku_constraints(...)
AddDiagonal ==
    /\ pc = "diagonal"
    /\ prob' = IF diagonal THEN add_diagonal_sudoku_constraints(prob) ELSE prob
    /\ pc' = "prefilled"
    /\ UNCHANGED <<input_sudoku, diagonal, prob_before, status, x, solution,
                   out, ret, args>>

\* an IndexError leaves solve_sudoku at once, nothing printed
AddPrefilled ==
    /\ pc = "prefilled"
    /\ LET r == add_prefilled_constraints(prob, input_sudoku)
       IN  /\ prob' = r.prob
           /\ IF r.raised = "None"
              THEN pc' = "solve" /\ ret' = ret
              ELSE pc' = "raised" /\ ret' = [kind |-> "raise", value |-> r.raised]
    /\ UNCHANGED <<input_sudoku, diagonal, prob_before, status, x, solution,
                   out, args>>

\* prob.solve(): the external solver.  Optimal comes with an assignment
\* that satisfies every constraint; Infeasible is given only when no
\* assignment does, which the model can test on its candidates only, so it
\* allows Infeasible whenever none of them does; the other statuses report
\* a solver that gave up.
Solve ==
    /\ pc = "solve"
    /\ LET sat == {a \in Candidates : Feasible(prob, a)}
       IN  \/ \E a \in sat : status' = 1 /\ x' = a
           \/ sat = {} /\ status' = -1 /\ x' = x
           \/ status' \in {0, -2, -3} /\ x' = x
    /\ pc' = "report"
    /\ UNCHANGED <<input_sudoku, diagonal, prob, prob_before, solution, out,
                   ret, args>>

\* solution_status = plp.LpStatus[prob.status]; print(...)
Report ==
    /\ pc = "report"
    /\ out' = Append(out, StatusLine(status))
    /\ IF LpStatus[status] = "Optimal"
       THEN pc' = "extract" /\ ret' = ret
       ELSE pc' = "done" /\ ret' = [kind |-> "return", value |-> "None"]
    /\ UNCHANGED <<input_sudoku, diagonal, prob, prob_before, status, x,
                   solution, args>>

\* solution = extract_solution(...); print_solution(...); falls off the end
ExtractAndPrint ==
    /\ pc = "extract"
    /\ solution' = extract_solution(x)
    /\ out' = Append(out, print_solution(solution'))
    /\ pc' = "done"
    /\ ret' = [kind |-> "return", value |-> "None"]
    /\ UNCHANGED <<input_sudoku, diagonal, prob, prob_before, status, x, args>>

Next ==
    \/ CreateProblem
    \/ AddDefault
    \/ AddDiagonal
    \/ AddPrefilled
    \/ Solve
    \/ Report
    \/ ExtractAndPrint

Spec == Init /\ [][Next]_vars

---------------------------------------------------------------------------
(* What the claims speak of, stated apart from the builder *)

Is9x9(board) ==
    /\ Len(board) = 9
    /\ \A r \in 1 .. 9 : Len(board[r]) = 9

\* some read input_sudoku[row][col], row and col in 0..8, falls outside
TooSmall(board) == \E k \in 1 .. 81 : ~InRange(board, CellOf(k)[1], CellOf(k)[2])

EntriesInDomain(board) ==
    \A r \in 1 .. Len(board) : \A c \in 1 .. Len(board[r]) : board[r][c] \in 0 .. 9

NonZeroCells(board) ==
    {<<row, col>> \in rows \X cols : At(board, row, col) # 0}

RowCells(row) == {<<row, col>> : col \in cols}
ColCells(col) == {<<row, col>> : row \in rows}
\* box b has its origin at (floor(b/3)*3, (b mod 3)*3)
BoxCells(b) ==
    {<<(b \div 3) * 3 + i, (b % 3) * 3 + j>> : i \in 0 .. 2, j \in 0 .. 2}
Diag1Cells == {<<i, i>> : i \in 0 .. 8}
Diag2Cells == {<<i, 8 - i>> : i \in 0 .. 8}

\* the cells hold every value of 1..9 (nine cells: each exactly once)
IsPermutation(sol, cells) == {At(sol, cell[1], cell[2]) : cell \in cells} = values

IsSudoku(sol) ==
    /\ \A row \in rows : IsPermutation(sol, RowCells(row))
    /\ \A col \in cols : IsPermutation(sol, ColCells(col))
    /\ \A b \in grids : IsPermutation(sol, BoxCells(b))

HasDiagonals(sol) ==
    /\ IsPermutation(sol, Diag1Cells)
    /\ IsPermutation(sol, Diag2Cells)

Built == pc \in {"solve", "report", "extract", "done"}
Solved == pc \in {"report", "extract", "done"}

\* C1: whenever the solver hands back an assignment satisfying every
\* constraint of the build, the grid extract_solution returns has 1..9 in
\* every row, column and 3x3 box, and on both diagonals when diagonal is set.
C1_SolutionIsSudoku ==
    (pc = "done" /\ LpStatus[status] = "Optimal") =>
        /\ Feasible(prob, x)
        /\ IsSudoku(solution)
        /\ (diagonal => HasDiagonals(solution))

C1_Witness ==
    /\ pc = "done"
    /\ LpStatus[status] = "Optimal"
    /\ diagonal
    /\ NonZeroCells(input_sudoku) # {}
    /\ solution = DiagSolution

---------------------------------------------------------------------------
(* C6: the size of the model *)

VarsOf(c) == {c.e[k][1] : k \in 1 .. Len(c.e)}
CoefsOf(c) == {c.e[k][2] : k \in 1 .. Len(c.e)}
First(c) == c.e[1][1]

\* a constraint's family, read off its terms and right-hand side
IsCellConstraint(c) ==
    /\ VarsOf(c) = {<<First(c)[1], First(c)[2], v>> : v \in values}
    /\ \A k \in 1 .. Len(c.e) : c.e[k][2] = 1
IsPrefilledConstraint(c) ==
    /\ VarsOf(c) = {<<First(c)[1], First(c)[2], v>> : v \in values}
    /\ \A k \in 1 .. Len(c.e) : c.e[k][2] = c.e[k][1][3]
    /\ Len(c.e) = 9
OverCells(c, cells) ==
    /\ VarsOf(c) = {<<cell[1], cell[2], First(c)[3]>> : cell \in cells}
    /\ CoefsOf(c) = {First(c)[3]}
    /\ c.rhs = First(c)[3]
IsRowConstraint(c) == OverCells(c, RowCells(First(c)[1]))
IsColConstraint(c) == OverCells(c, ColCells(First(c)[2]))
IsBoxConstraint(c) ==
    OverCells(c, BoxCells((First(c)[1] \div 3) * 3 + (First(c)[2] \div 3)))
IsDiagConstraint(c) == OverCells(c, Diag1Cells) \/ OverCells(c, Diag2Cells)


AllVars == rows \X cols \X values

\* C6: for a 9x9 Board the finished build holds the 729 variables, one per
\* (row, col, value) and each under its own name, and exactly 81 cell, 162
\* row and column, 81 box, 18 diagonal (only when diagonal is set) and one
\* prefilled constraint per non-zero Board cell, and no two constraints
\* share a name.
C6_ModelSize ==
    (Built /\ Is9x9(input_sudoku)) =>
        /\ UNION {VarsOf(prob[k]) : k \in 1 .. Len(prob)} = AllVars
        /\ Cardinality({VarName(t[1], t[2], t[3]) : t \in AllVars}) = 729
        /\ Cardinality({k \in 1 .. Len(prob) : IsCellConstraint(prob[k])}) = 81
        /\ Cardinality({k \in 1 .. Len(prob) : IsRowConstraint(prob[k])}) = 81
        /\ Cardinality({k \in 1 .. Len(prob) : IsColConstraint(prob[k])}) = 81
        /\ Cardinality({k \in 1 .. Len(prob) : IsBoxConstraint(prob[k])}) = 81
        /\ Cardinality({k \in 1 .. Len(prob) : IsDiagConstraint(prob[k])})
              = (IF diagonal THEN 18 ELSE 0)
        /\ Cardinality({k \in 1 .. Len(prob) : IsPrefilledConstraint(prob[k])})
              = Cardinality(NonZeroCells(input_sudoku))
        /\ Len(prob) = 81 + 162 + 81 + (IF diagonal THEN 18 ELSE 0)
                          + Cardinality(NonZeroCells(input_sudoku))
        /\ Cardinality({prob[k].name : k \in 1 .. Len(prob)}) = Len(prob)

C6_Witness ==
    /\ pc = "solve"
    /\ diagonal
    /\ input_sudoku = normal_sudoku
    /\ Len(prob) = 324 + 18 + 28

---------------------------------------------------------------------------
(* C7: a value twice in a row *)

HasRowDuplicate(board) ==
    \E row \in rows : \E c1, c2 \in cols :
        /\ c1 # c2
        /\ At(board, row, c1) # 0
        /\ At(board, row, c1) = At(board, row, c2)

\* C7: when a 9x9 Board has one non-zero value in two cells of a row, no
\* 0/1 assignment satisfies the build, and the solve never ends Optimal.
C7_RowDuplicateInfeasible ==
    (Is9x9(input_sudoku) /\ HasRowDuplicate(input_sudoku)) =>
        /\ (pc = "solve" => \A a \in Candidates : ~Feasible(prob, a))
        /\ (Solved => LpStatus[status] # "Optimal")

C7_Witness ==
    /\ pc = "done"
    /\ LpStatus[status] = "Infeasible"
    /\ Is9x9(input_sudoku)
    /\ HasRowDuplicate(input_sudoku)
    /\ EntriesInDomain(input_sudoku)

---------------------------------------------------------------------------
(* C3: Boards of the wrong shape or with entries outside 0..9 *)

OutOfDomainCells(board) ==
    {<<row, col>> \in rows \X cols : At(board, row, col) \notin 0 .. 9}

\* C3 as claimed: a Board that is not 9x9 fails with InvalidBoardShape and
\* one with an entry outside 0..9 with InvalidCellValue, before any
\* constraint is added and before the solver is called.
C3_EagerValidation ==
    (~Is9x9(input_sudoku) \/ ~EntriesInDomain(input_sudoku)) =>
        /\ prob = << >>
        /\ ~Solved
        /\ (pc \in {"raised", "done"} =>
               /\ ret.kind = "raise"
               /\ ret.value = (IF Is9x9(input_sudoku) THEN "InvalidCellValue"
                               ELSE "InvalidBoardShape"))

\* C3 as amended: nothing is validated.  A Board lacking one of the cells
\* (row, col), row and col in 0..8, makes add_prefilled_constraints raise
\* IndexError after the 324 default constraints (and the 18 diagonal ones
\* when diagonal is set) are in the problem, before the solver is called
\* and with nothing printed.  Any other Board is built in full: rows and
\* columns past the ninth are ignored, an entry outside 0..9 becomes a
\* prefilled constraint with that right-hand side, the solver is called,
\* and with such an entry the solve never ends Optimal.
C3_NoValidation ==
    /\ TooSmall(input_sudoku) =>
          /\ ~Built
          /\ out = << >>
          /\ (pc = "raised" =>
                /\ ret = [kind |-> "raise", value |-> "IndexError"]
                /\ Len(prob) >= 324 + (IF diagonal THEN 18 ELSE 0))
    /\ ~TooSmall(input_sudoku) =>
          /\ pc # "raised"
          /\ ret.kind # "raise"
          /\ (Built => Len(prob) = 324 + (IF diagonal THEN 18 ELSE 0)
                                       + Cardinality(NonZeroCells(input_sudoku)))
          /\ (Built /\ OutOfDomainCells(input_sudoku) # {} =>
                \E k \in 1 .. Len(prob) : prob[k].rhs \notin 0 .. 9)
          /\ (Solved /\ OutOfDomainCells(input_sudoku) # {} =>
                LpStatus[status] # "Optimal")

C3_Witness ==
    /\ pc = "raised"
    /\ diagonal
    /\ ~Is9x9(input_sudoku)
    /\ Len(prob) = 324 + 18 + 9

---------------------------------------------------------------------------
(* C4: what the caller gets *)

StatusName(s) ==
    CASE s = 1  -> "Optimal"
      [] s = 0  -> "Not Solved"
      [] s = -1 -> "Infeasible"
      [] s = -2 -> "Unbounded"
      [] s = -3 -> "Undefined"

FullyPopulated(sol) ==
    /\ Is9x9(sol)
    /\ \A r \in 1 .. 9 : \A c \in 1 .. 9 : sol[r][c] \in values

\* C4 as claimed: the value handed back to the caller identifies the solver
\* status, a Solution grid when Optimal and a failure signal otherwise.
C4_StatusReturned ==
    (pc = "done") => ret.value # "None"

\* C4 as amended: solve_sudoku hands back None whatever the status.  The
\* status is identified on standard output only, by the line "Solution
\* Status = <name>" whose name differs for Optimal, Infeasible, Unbounded,
\* Undefined and Not Solved; the fully populated Solution grid is printed
\* after it exactly when the status is Optimal.
C4_StatusPrintedOnly ==
    (pc = "done") =>
        /\ ret = [kind |-> "return", value |-> "None"]
        /\ out[1] = "Solution Status = " \o StatusName(status) \o "\n"
        /\ \A s \in DOMAIN LpStatus : s # status => StatusLine(s) # out[1]
        /\ IF StatusName(status) = "Optimal"
           THEN /\ Len(out) = 2
                /\ FullyPopulated(solution)
                /\ out[2] = print_solution(solution)
           ELSE /\ Len(out) = 1
                /\ solution = << >>

C4_Witness ==
    /\ pc = "done"
    /\ input_sudoku = normal_sudoku
    /\ diagonal
    /\ StatusName(status) = "Infeasible"
    /\ out = <<"Solution Status = Infeasible\n">>
    /\ ret.value = "None"

---------------------------------------------------------------------------
(* The build run twice on one Board, the second time with the other flag *)

BuildAgain ==
    /\ pc = "solve"
    /\ args = << >>
    /\ prob_before' = prob
    /\ diagonal' = ~diagonal
    /\ args' = <<"again">>
    /\ pc' = "start"
    /\ UNCHANGED <<input_sudoku, prob, status, x, solution, out, ret>>

NextRebuild ==
    \/ CreateProblem
    \/ AddDefault
    \/ AddDiagonal
    \/ AddPrefilled
    \/ BuildAgain

SpecRebuild == Init /\ [][NextRebuild]_vars

SetOf(p) == {p[k] : k \in 1 .. Len(p)}

BothBuilt == pc = "solve" /\ args = <<"again">>
WithDiagonal == IF diagonal THEN prob ELSE prob_before
WithoutDiagonal == IF diagonal THEN prob_before ELSE prob

\* C9: the build with diagonal set is the build without it plus exactly 18
\* constraints, one per value over the cells (i, i) and one per value over
\* the cells (i, 8 - i); every other constraint is in both builds with the
\* same name, terms, coefficients and right-hand side.
C9_DiagonalOnlyAdds ==
    BothBuilt =>
        LET added == SetOf(WithDiagonal) \ SetOf(WithoutDiagonal)
        IN  /\ SetOf(WithoutDiagonal) \subseteq SetOf(WithDiagonal)
            /\ Len(WithDiagonal) = Len(WithoutDiagonal) + 18
            /\ Cardinality(added) = 18
            /\ \A v \in values :
                  /\ \E c \in added :
                        /\ VarsOf(c) = {<<i, i, v>> : i \in 0 .. 8}
                        /\ CoefsOf(c) = {v} /\ c.rhs = v
                  /\ \E c \in added :
                        /\ VarsOf(c) = {<<i, 8 - i, v>> : i \in 0 .. 8}
                        /\ CoefsOf(c) = {v} /\ c.rhs = v
            /\ Cardinality({c.name : c \in SetOf(WithDiagonal)})
                  = Len(WithDiagonal)

C9_Witness ==
    /\ BothBuilt
    /\ diagonal
    /\ input_sudoku = normal_sudoku
    /\ Len(prob_before) = 324 + 28
    /\ Len(prob) = 324 + 18 + 28

---------------------------------------------------------------------------
(* One prefilled cell against every 0/1 setting of its nine variables *)

UnitCells == {<<i, (2 * i) % 9>> : i \in 0 .. MaxUnitCell}

Zeros == [row \in rows |-> [col \in cols |-> [value \in values |-> 0]]]

\* assignment a with the nine variables of one cell replaced
WithCell(a, row, col, cell) == [a EXCEPT ![row][col] = cell]

\* the constraints of a build whose terms lie in one cell
CellOnly(p, row, col) ==
    {c \in SetOf(p) : VarsOf(c) \subseteq {<<row, col, v>> : v \in values}}

InitCell ==
    /\ \E cell \in UnitCells, p \in values :
          /\ args = [row |-> cell[1], col |-> cell[2], p |-> p, sat |-> FALSE]
          /\ input_sudoku = SetCell(EmptyBoard, cell[1], cell[2], p)
          /\ \E bits \in [values -> {0, Den}] :
                x = WithCell(Zeros, cell[1], cell[2], bits)
    /\ diagonal = FALSE
    /\ pc = "unit"
    /\ prob = << >>
    /\ prob_before = << >>
    /\ status = 0
    /\ solution = << >>
    /\ out = << >>
    /\ ret = Pending

\* build the model of the Board, test the cell's constraints on x, decode x
CheckCell ==
    /\ pc = "unit"
    /\ LET built == add_prefilled_constraints(
                        add_default_sudoku_constraints(<< >>), input_sudoku).prob
       IN  args' = [args EXCEPT !.sat =
                       \A c \in CellOnly(built, args.row, args.col) :
                           Satisfied(c, x)]
    /\ solution' = extract_solution(x)
    /\ pc' = "checked"
    /\ UNCHANGED <<input_sudoku, diagonal, prob, prob_before, status, x, out,
                   ret>>

NextCell == CheckCell

SpecCell == InitCell /\ [][NextCell]_vars

\* C2: for a cell prefilled with p in 1..9, a 0/1 assignment that satisfies
\* the cell constraint and the prefilled constraint has the variable of p at
\* 1 and the cell's other variables at 0, and extract_solution returns p
\* for the cell.
C2_PrefilledPinned ==
    (pc = "checked" /\ args.sat) =>
        /\ x[args.row][args.col][args.p] = Den
        /\ \A v \in values \ {args.p} : x[args.row][args.col][v] = 0
        /\ At(solution, args.row, args.col) = args.p

C2_Witness ==
    /\ pc = "checked"
    /\ args.sat
    /\ args.p = 6
    /\ At(input_sudoku, args.row, args.col) = 6
    /\ At(solution, args.row, args.col) = 6

---------------------------------------------------------------------------
(* One uniqueness constraint against every 0/1 setting of its group *)

GroupKinds == {"row", "col", "grid", "diag1", "diag2"}

\* the constraint the build adds for a group and a value
GroupConstraint(kind, index, value) ==
    CASE kind = "row"   -> row_constraint(index, value)
      [] kind = "col"   -> col_constraint(index, value)
      [] kind = "grid"  -> grid_constraint(index, value)
      [] kind = "diag1" -> diag1_constraint(value)
      [] kind = "diag2" -> diag2_constraint(value)

\* the cells of a group as the rules of the puzzle give them
GroupCells(kind, index) ==
    CASE kind = "row"   -> RowCells(index)
      [] kind = "col"   -> ColCells(index)
      [] kind = "grid"  -> BoxCells(index)
      [] kind = "diag1" -> Diag1Cells
      [] kind = "diag2" -> Diag2Cells

\* the k-th cell of a group, its cells taken in row-major order
Ordered(cells) ==
    [k \in 1 .. 9 |->
        CHOOSE cell \in cells :
            Cardinality({d \in cells : 9 * d[1] + d[2] < 9 * cell[1] + cell[2]})
                = k - 1]

\* value v is set in the cells of the group that bits selects; every other
\* variable of the grid has the background value
GroupAssignment(kind, index, v, bits, background) ==
    LET order == Ordered(GroupCells(kind, index))
        on == {order[k] : k \in {j \in 1 .. 9 : bits[j]}}
    IN  [row \in rows |-> [col \in cols |-> [value \in values |->
            IF value = v /\ <<row, col>> \in GroupCells(kind, index)
            THEN (IF <<row, col>> \in on THEN Den ELSE 0)
            ELSE background]]]

GroupBits ==
    {[j \in 1 .. 9 |-> j \in on] :
        on \in {s \in SUBSET (1 .. 9) :
                   Cardinality(s) <= MaxOnes \/ Cardinality(s) = 9}}

InitGroup ==
    /\ \E kind \in GroupKinds :
       \E index \in (IF kind \in {"diag1", "diag2"} THEN {0} ELSE 0 .. 8) :
       \E v \in values, background \in {0, Den} :
       \E bits \in GroupBits :
          /\ args = [kind |-> kind, index |-> index, value |-> v,
                     ones |-> Cardinality({j \in 1 .. 9 : bits[j]}),
                     sat |-> FALSE]
          /\ x = GroupAssignment(kind, index, v, bits, background)
    /\ input_sudoku = EmptyBoard
    /\ diagonal = FALSE
    /\ pc = "unit"
    /\ prob = << >>
    /\ prob_before = << >>
    /\ status = 0
    /\ solution = << >>
    /\ out = << >>
    /\ ret = Pending

CheckGroup ==
    /\ pc = "unit"
    /\ args' = [args EXCEPT !.sat =
                   Satisfied(GroupConstraint(args.kind, args.index, args.value), x)]
    /\ pc' = "checked"
    /\ UNCHANGED <<input_sudoku, diagonal, prob, prob_before, status, x,
                   solution, out, ret>>

NextGroup == CheckGroup

SpecGroup == InitGroup /\ [][NextGroup]_vars

OnesIn(a, cells, v) ==
    Cardinality({cell \in cells : a[cell[1]][cell[2]][v] = Den})

\* C10: a 0/1 assignment satisfies the weighted constraint of a group and a
\* value v exactly when one cell of the group, and no more, has v set; the
\* constraint of box b is over the nine cells with origin
\* (floor(b/3)*3, (b mod 3)*3), and every cell of the grid is in the
\* constraint of exactly one box.
C10_ExactlyOne ==
    (pc = "checked") =>
        /\ args.sat <=>
              OnesIn(x, GroupCells(args.kind, args.index), args.value) = 1
        /\ (args.kind = "grid" /\ args.ones = 0) =>
              \A cell \in rows \X cols :
                 Cardinality({b \in grids :
                     <<cell[1], cell[2], args.value>>
                        \in VarsOf(grid_constraint(b, args.value))}) = 1

C10_Witness ==
    /\ pc = "checked"
    /\ args.kind = "grid"
    /\ args.index = 5
    /\ args.value = 7
    /\ args.sat
    /\ x[4][8][7] = Den
    /\ x[0][0][1] = Den

---------------------------------------------------------------------------
(* extract_solution on assignments with one cell out of order *)

\* nine solved values, at most MaxNonZero of them not 0
CellValues ==
    UNION {{[v \in values |-> IF v \in on THEN f[v] ELSE 0] :
               f \in [on -> 1 .. Den]} :
           on \in {s \in SUBSET values : Cardinality(s) <= MaxNonZero}}

InitExtract ==
    /\ \E cell \in UnitCells, vec \in CellValues :
          /\ args = [row |-> cell[1], col |-> cell[2]]
          /\ x = WithCell(OneHot(StdSolution), cell[1], cell[2], vec)
    /\ input_sudoku = normal_sudoku
    /\ diagonal = FALSE
    /\ pc = "unit"
    /\ prob = << >>
    /\ prob_before = << >>
    /\ status = 1
    /\ solution = << >>
    /\ out = << >>
    /\ ret = Pending

ExtractOnly ==
    /\ pc = "unit"
    /\ solution' = extract_solution(x)
    /\ pc' = "extracted"
    /\ UNCHANGED <<input_sudoku, diagonal, prob, prob_before, status, x, out,
                   ret, args>>

NextExtract == ExtractOnly

SpecExtract == InitExtract /\ [][NextExtract]_vars

IsBinary(cell) == \A v \in values : cell[v] \in {0, Den}
TrueValues(cell) == {v \in values : cell[v] = Den}
Largest(S) == CHOOSE v \in S : \A w \in S : w <= v
Smallest(S) == CHOOSE v \in S : \A w \in S : v <= w

\* C5 as claimed: on a cell with no true value or several, extract_solution
\* fails with InconsistentAssignment or, a value being true, returns the
\* smallest true value; it never leaves the cell at 0.
C5_FailOrFirstTrue ==
    (pc = "extracted" /\ IsBinary(x[args.row][args.col])
       /\ Cardinality(TrueValues(x[args.row][args.col])) # 1) =>
        \/ ret = [kind |-> "raise", value |-> "InconsistentAssignment"]
        \/ /\ TrueValues(x[args.row][args.col]) # {}
           /\ At(solution, args.row, args.col)
                 = Smallest(TrueValues(x[args.row][args.col]))

\* C5 as amended: extract_solution never fails; a cell with no true value
\* is left at 0 without notice, and a cell with several true values gets
\* the last of them in increasing value order, the largest.
C5_SilentLastTrue ==
    (pc = "extracted") =>
        /\ ret.kind # "raise"
        /\ \A row \in rows : \A col \in cols :
              IsBinary(x[row][col]) =>
                 At(solution, row, col)
                    = (IF TrueValues(x[row][col]) = {} THEN 0
                       ELSE Largest(TrueValues(x[row][col])))

C5_Witness ==
    /\ pc = "extracted"
    /\ TrueValues(x[args.row][args.col]) = {2, 7}
    /\ IsBinary(x[args.row][args.col])
    /\ At(solution, args.row, args.col) = 7

\* C8 as claimed: a variable counts as true exactly when its solved value
\* is above 1/2, so the value extract_solution selects for a cell is never
\* one whose variable is at or below 1/2.
C8_ThresholdTruth ==
    (pc = "extracted") =>
        \A row \in rows : \A col \in cols :
            At(solution, row, col) # 0 =>
                2 * x[row][col][At(solution, row, col)] > Den

\* C8 as amended: a variable counts as true exactly when its solved value
\* is not zero: the selected value's variable is non-zero, and a non-zero
\* variable, however small, is selected unless a higher value of the cell
\* has a non-zero variable too.
C8_NonZeroTruth ==
    (pc = "extracted") =>
        \A row \in rows : \A col \in cols :
            /\ At(solution, row, col) # 0 =>
                  x[row][col][At(solution, row, col)] # 0
            /\ \A v \in values :
                  x[row][col][v] # 0 => At(solution, row, col) >= v

C8_Witness ==
    /\ pc = "extracted"
    /\ x[args.row][args.col][3] = Den
    /\ x[args.row][args.col][8] = 1
    /\ At(solution, args.row, args.col) = 8

===========================================================================
